---- MODULE Spec2Model ----
(***************************************************************************)
(* Model of MCPClient (services/MCPClient.ts): the registry of MCP server  *)
(* instances, the stdio and streamable-HTTP transports, the correlation of *)
(* JSON-RPC responses with pending requests, tool discovery and dispatch.  *)
(*                                                                         *)
(* Node runs the client on one event loop.  One action of the model is one *)
(* macrotask (a call from the host, a stdout 'data' event, a timer, an     *)
(* 'exit' event, the completion of a fetch) together with the promise      *)
(* continuations it triggers.                                              *)
(***************************************************************************)
EXTENDS Integers, Sequences, FiniteSets, TLC

\* ---------------------------------------------------------------- bounds
MaxCalls == 2      \* executeTool invocations in one run
MaxEvents == 2     \* data: lines in one event stream

\* ------------------------------------------------------- program values
DiscoveryTimeoutMs == 10000
ToolCallTimeoutMs == 30000

\* ids one instance can issue: initialize, tools/list and the tool calls
ReqIds == 1..(2 + MaxCalls)

ToolNames == {"search", "echo"}
\* what a tools/list result can carry: a tools array, or no tools array
NoTools == <<"no-tools-array">>
Catalogs == {<<"search">>, <<"echo">>}

\* an MCPServerConfig: target says what the command / url points to ("ok":
\* a server, for a url one that answers with JSON bodies; "streaming": a
\* server at a url that assigns session ids and can answer with an event
\* stream), hdr is the Mcp-Session-Id of the static headers ("none": not
\* configured)
StdioCfg(n) ==
    [name |-> n, type |-> "stdio", target |-> "ok", hdr |-> "none"]
HttpCfg(n) ==
    [name |-> n, type |-> "streamable-http", target |-> "ok", hdr |-> "none"]
HttpCfgWithHeader(n) ==
    [name |-> n, type |-> "streamable-http", target |-> "streaming",
     hdr |-> "cfg"]
\* configurations without command / url, with a command that does not
\* exist, with a type the client does not know
StdioNoCommand(n) ==
    [name |-> n, type |-> "stdio", target |-> "absent", hdr |-> "none"]
HttpNoUrl(n) ==
    [name |-> n, type |-> "sse", target |-> "absent", hdr |-> "none"]
StdioEnoent(n) ==
    [name |-> n, type |-> "stdio", target |-> "enoent", hdr |-> "none"]
UnsupportedCfg(n) ==
    [name |-> n, type |-> "websocket", target |-> "ok", hdr |-> "none"]
\* a stdio server whose stdout reaches the client in chunks that are not
\* one line each: a line in two chunks, several lines in one chunk
StdioChunky(n) ==
    [name |-> n, type |-> "stdio", target |-> "chunky", hdr |-> "none"]

\* the configurations (config.servers, with config.enabled) a run can start
\* from: one HTTP server with a static session header, two stdio servers,
\* two stdio servers under one name, an HTTP server followed by a stdio
\* server, a server of an unknown type followed by a stdio server, two
\* servers without url / command, a stdio server whose command does not
\* exist, a stdio server whose stdout is chunked freely
ConfigChoices ==
    { <<HttpCfgWithHeader("a")>>,
      <<StdioCfg("a"), StdioCfg("b")>>,
      <<StdioCfg("a"), StdioCfg("a")>>,
      <<HttpCfg("a"), StdioCfg("b")>>,
      <<UnsupportedCfg("a"), StdioCfg("b")>>,
      <<HttpNoUrl("a"), StdioNoCommand("b")>>,
      <<StdioEnoent("a")>>,
      <<StdioChunky("a")>> }

\* the longest configuration
MaxServers == CHOOSE n \in 0..4 :
    /\ \A c \in ConfigChoices : Len(c) <= n
    /\ \E c \in ConfigChoices : Len(c) = n

\* initialize() creates one instance per configuration; the host calls it
\* once, from its constructor (Server, AudioService)
InstIds == 1..MaxServers

VARIABLES
    config,          \* this.config.servers
    servers,         \* this.servers: sequence of [name, inst] in Map order
    nInst,           \* number of MCPServerInstance objects created so far
    instCfg,         \* instance -> its config (index into config), 0 = none
    initialized,     \* instance.initialized
    tools,           \* instance.tools
    requestId,       \* instance.requestId
    sessionId,       \* instance.sessionId ("none": undefined)
    pendingRequests, \* instance.pendingRequests: the set of keys of the Map
    process,         \* instance.process: "none", "running", "exited",
                     \* "error" (the spawn failed)
    killed,          \* instances whose process.kill() has been called
    req,             \* per (instance, id): the request and its caller
    issued,          \* per instance: the ids assigned, in issue order
    sent,            \* per instance: the ids put on the transport, in order
    initIdx,         \* initialize(): index of the configuration in the loop
    initStage,       \* initialize(): "idle", "next", "awaitInit", "awaitList"
    calls,           \* number of executeTool invocations so far
    lastCall,        \* the latest executeTool invocation and its dispatch
    lastOp,          \* the latest host call on the client
    tornDown,        \* instances that were registered when shutdown() ran
    failed,          \* instances whose initializeServer threw
    emitted,         \* what the handleToolCall of each call has emitted: per
                     \* tools/call request (inst, id), or inst 0 and the
                     \* number of the call when no request was made, and per
                     \* environment of handleToolCall
    split            \* per instance and request id: the pieces of a response
                     \* line written in two chunks that the stdout handler
                     \* was given ("none", "head": the first, "all": both)

vars == <<config, servers, nInst, instCfg, initialized, tools, requestId,
          sessionId, pendingRequests, process, killed, req, issued, sent, initIdx,
          initStage, calls, lastCall, lastOp, tornDown, failed, split,
          emitted>>

NoReq == [method |-> "none", timer |-> "none", ms |-> 0, hdr |-> "none",
          rsid |-> "none", multi |-> FALSE, nres |-> 0, nrej |-> 0, out |-> "none"]
NoCall == [name |-> "none", target |-> 0, outcome |-> "none"]

CfgOf(i) == config[instCfg[i]]
IsStdio(i) == instCfg[i] # 0 /\ CfgOf(i).type = "stdio"
IsHttp(i) == instCfg[i] # 0 /\ CfgOf(i).type \in {"sse", "streamable-http"}

Init ==
    /\ config \in ConfigChoices
    /\ servers = <<>>
    /\ nInst = 0
    /\ instCfg = [i \in InstIds |-> 0]
    /\ initialized = [i \in InstIds |-> FALSE]
    /\ tools = [i \in InstIds |-> <<>>]
    /\ requestId = [i \in InstIds |-> 0]
    /\ sessionId = [i \in InstIds |-> "none"]
    /\ pendingRequests = [i \in InstIds |-> {}]
    /\ process = [i \in InstIds |-> "none"]
    /\ killed = {}
    /\ req = [i \in InstIds |-> [k \in ReqIds |-> NoReq]]
    /\ split = [i \in InstIds |-> [k \in ReqIds |-> "none"]]
    /\ issued = [i \in InstIds |-> <<>>]
    /\ sent = [i \in InstIds |-> <<>>]
    /\ initIdx = 0
    /\ initStage = "idle"
    /\ calls = 0
    /\ lastCall = NoCall
    /\ lastOp = "none"
    /\ emitted = {}
    /\ tornDown = {}
    /\ failed = {}


\* ------------------------------------------------------------- helpers
Min(S) == CHOOSE x \in S : \A y \in S : x <= y

\* the loop of initialize() runs between two awaits of settled promises:
\* no other task of the event loop runs while the stage is "next"
Busy == initStage = "next"

\* Map.set(name, instance): a new key goes last, a known key keeps its place
ServersSet(s, name, i) ==
    IF \E k \in 1..Len(s) : s[k].name = name
    THEN [k \in 1..Len(s) |->
             IF s[k].name = name THEN [name |-> name, inst |-> i] ELSE s[k]]
    ELSE Append(s, [name |-> name, inst |-> i])

Registered == {servers[k].inst : k \in 1..Len(servers)}

\* const timeoutMs = method === 'tools/call' ? 30000 : 10000
TimeoutMs(method) ==
    IF method = "tools/call" THEN ToolCallTimeoutMs ELSE DiscoveryTimeoutMs

\* a client that numbers a request by the size of the Map
NextId_FromMapSize(i) == Cardinality(pendingRequests[i]) + 1

\* const id = ++instance.requestId
NextId(i) == requestId[i] + 1

\* a client that arms no timer for tools/call
NewRequest_NoTimerOnCall(method, timer) ==
    [method |-> method,
     timer |-> IF method = "tools/call" THEN "none" ELSE timer,
     ms |-> IF timer = "armed" THEN TimeoutMs(method) ELSE 0,
     hdr |-> "none", rsid |-> "none", multi |-> FALSE, nres |-> 0, nrej |-> 0, out |-> "waiting"]

\* the request as sendMCPRequest / sendStreamableHTTPRequest creates it: the
\* caller waits on its promise; timer and ms are the setTimeout, if any;
\* hdr is the Mcp-Session-Id header of the POST; of an initialize request,
\* rsid is the Mcp-Session-Id header of the response; of a tools/list
\* request, multi says that the response was an event stream from which
\* more than one event was parsed
NewRequest(method, timer) ==
    [method |-> method, timer |-> timer,
     ms |-> IF timer = "armed" THEN TimeoutMs(method) ELSE 0,
     hdr |-> "none", rsid |-> "none", multi |-> FALSE, nres |-> 0, nrej |-> 0, out |-> "waiting"]

\* the promise's resolve(value) / reject(error): the first call settles it
Resolved(r, value) ==
    [r EXCEPT !.nres = @ + 1, !.out = IF @ = "waiting" THEN value ELSE @]
Rejected(r, why) ==
    [r EXCEPT !.nrej = @ + 1, !.out = IF @ = "waiting" THEN why ELSE @]

\* the wrappers stored in the Map call clearTimeout(timeout) first
ClearTimeout(r) == [r EXCEPT !.timer = IF @ = "armed" THEN "cleared" ELSE @]

\* a discovery that does not test the result for a tools array
ToolsAfterDiscovery_NoArrayTest(i, r, out, payload) ==
    IF r.method = "tools/list" /\ r.out = "waiting"
    THEN [tools EXCEPT ![i] = IF out = "result" THEN payload ELSE <<>>]
    ELSE tools

\* a client that drops the catalog of a provider when a request to it fails
ToolsAfterDiscovery_ClearOnFailure(i, r, out, payload) ==
    IF r.out = "waiting"
       /\ (r.method = "tools/list" \/ out \notin {"result", "undefined"})
    THEN [tools EXCEPT ![i] =
             IF out = "result" /\ payload # NoTools THEN payload ELSE <<>>]
    ELSE tools

\* discoverToolsStdio / discoverToolsStreamableHTTP after the await: a
\* result with a tools array fills the catalog, anything else empties it
ToolsAfterDiscovery(i, r, out, payload) ==
    IF r.method = "tools/list" /\ r.out = "waiting"
    THEN [tools EXCEPT ![i] =
             IF out = "result" /\ payload # NoTools THEN payload ELSE <<>>]
    ELSE tools

\* a handler that leaves the entry in the Map
PendingAfterResponse_Keep(i, id) == pendingRequests[i]

\* instance.pendingRequests.delete(response.id) in handleMCPResponse
PendingAfterResponse(i, id) == pendingRequests[i] \ {id}

\* what handleMCPResponse settles the caller with
ResponseOutcome(r, msg) ==
    IF msg.kind = "error"
    THEN Rejected(r, "remote_error")
    ELSE Resolved(r, IF msg.kind = "result" THEN "result" ELSE "undefined")

\* a client with one pending Map for all instances: a response settles the
\* request with its id of every instance that has one pending
HandleMCPResponse_SharedMap(i, msg) ==
    LET hit == {j \in InstIds : msg.id # 0 /\ msg.id \in pendingRequests[j]}
    IN /\ pendingRequests' =
             [j \in InstIds |-> IF j \in hit THEN pendingRequests[j] \ {msg.id}
                                ELSE pendingRequests[j]]
       /\ req' = [j \in InstIds |->
                    IF j \in hit
                    THEN [req[j] EXCEPT ![msg.id] =
                             ResponseOutcome(ClearTimeout(@), msg)]
                    ELSE req[j]]
       /\ tools' = IF i \in hit
                   THEN ToolsAfterDiscovery(
                           i, req[i][msg.id],
                           ResponseOutcome(ClearTimeout(req[i][msg.id]), msg).out,
                           msg.tools)
                   ELSE tools

\* a handler that gives a message it cannot correlate to the oldest
\* pending request
HandleMCPResponse_UnmatchedToOldest(i, msg) ==
    IF pendingRequests[i] # {}
    THEN LET id == IF msg.id \in pendingRequests[i] THEN msg.id
                   ELSE Min(pendingRequests[i])
             r == req[i][id]
             s == ResponseOutcome(ClearTimeout(r), msg)
         IN /\ pendingRequests' =
                   [pendingRequests EXCEPT ![i] = PendingAfterResponse(i, id)]
            /\ req' = [req EXCEPT ![i][id] = s]
            /\ tools' = ToolsAfterDiscovery(i, r, s.out, msg.tools)
    ELSE UNCHANGED <<pendingRequests, req, tools>>

\* a handler that gives a response to the oldest pending request
HandleMCPResponse_Positional(i, msg) ==
    IF msg.id # 0 /\ pendingRequests[i] # {}
    THEN LET id == Min(pendingRequests[i])
             r == req[i][id]
             s == ResponseOutcome(ClearTimeout(r), msg)
         IN /\ pendingRequests' =
                   [pendingRequests EXCEPT ![i] = PendingAfterResponse(i, id)]
            /\ req' = [req EXCEPT ![i][id] = s]
            /\ tools' = ToolsAfterDiscovery(i, r, s.out, msg.tools)
    ELSE UNCHANGED <<pendingRequests, req, tools>>

\* handleMCPResponse(instance, response) and the continuation it resumes
HandleMCPResponse(i, msg) ==
    IF msg.id # 0 /\ msg.id \in pendingRequests[i]
    THEN LET r == req[i][msg.id]
             s == ResponseOutcome(ClearTimeout(r), msg)
         IN /\ pendingRequests' =
                   [pendingRequests EXCEPT ![i] = PendingAfterResponse(i, msg.id)]
            /\ req' = [req EXCEPT ![i][msg.id] = s]
            /\ tools' = ToolsAfterDiscovery(i, r, s.out, msg.tools)
    ELSE UNCHANGED <<pendingRequests, req, tools>>

\* a sender whose lines reach stdin newest first
SendMCPRequest_NewestFirst(i, method) ==
    LET id == NextId(i) IN
    /\ requestId' = [requestId EXCEPT ![i] = id]
    /\ issued' = [issued EXCEPT ![i] = Append(@, id)]
    /\ pendingRequests' = [pendingRequests EXCEPT ![i] = @ \cup {id}]
    /\ req' = [req EXCEPT ![i][id] = NewRequest(method, "armed")]
    /\ sent' = [sent EXCEPT ![i] = <<id>> \o @]

\* a sender that writes the line and puts no entry in the Map
SendMCPRequest_Unregistered(i, method) ==
    LET id == NextId(i) IN
    /\ requestId' = [requestId EXCEPT ![i] = id]
    /\ issued' = [issued EXCEPT ![i] = Append(@, id)]
    /\ UNCHANGED pendingRequests
    /\ req' = [req EXCEPT ![i][id] = NewRequest(method, "armed")]
    /\ sent' = [sent EXCEPT ![i] = Append(@, id)]

\* sendMCPRequest(instance, method): id, timer, Map entry, line on stdin
SendMCPRequest(i, method) ==
    LET id == NextId(i) IN
    /\ requestId' = [requestId EXCEPT ![i] = id]
    /\ issued' = [issued EXCEPT ![i] = Append(@, id)]
    /\ pendingRequests' = [pendingRequests EXCEPT ![i] = @ \cup {id}]
    /\ req' = [req EXCEPT ![i][id] = NewRequest(method, "armed")]
    /\ sent' = [sent EXCEPT ![i] = Append(@, id)]

\* the Mcp-Session-Id header of a POST: the static headers are spread first,
\* then the session id, when there is one, is written over them
SessionHeader(sid, cfg) == IF sid # "none" THEN sid ELSE cfg.hdr

\* sendStreamableHTTPRequest(instance, method) up to its await fetch(...);
\* rq is the request table the call starts from, hdr its Mcp-Session-Id
\* header
SendStreamableHTTPRequest(i, method, rq, hdr) ==
    LET id == NextId(i) IN
    /\ requestId' = [requestId EXCEPT ![i] = id]
    /\ issued' = [issued EXCEPT ![i] = Append(@, id)]
    /\ req' = [rq EXCEPT ![i][id] =
                  [NewRequest(method, "none") EXCEPT !.hdr = hdr]]
    /\ sent' = [sent EXCEPT ![i] = Append(@, id)]

\* a client that takes the session id from every response that has one
SessionAfterResponse_Always(sid, method, resp) ==
    IF resp.kind # "status" /\ resp.sid # "none" THEN resp.sid ELSE sid

\* a client that reads the session header before it tests response.ok
SessionAfterResponse_BeforeStatus(sid, method, resp) ==
    IF resp.sid # "none" THEN resp.sid ELSE sid

\* instance.sessionId after a response: a response that is ok and answers
\* the initialize request sets it from its Mcp-Session-Id header, if any
SessionAfterResponse(sid, method, resp) ==
    IF resp.kind # "status" /\ method = "initialize" /\ resp.sid # "none"
    THEN resp.sid
    ELSE sid

\* the for loop of initialize() moves to the next configuration or returns
AdvanceInit ==
    IF initIdx < Len(config)
    THEN initIdx' = initIdx + 1 /\ initStage' = "next"
    ELSE initIdx' = 0 /\ initStage' = "idle"

\* an initialize() that lets the error of initializeServer escape
InitFailure_Rethrow(i) ==
    /\ failed' = failed \cup {i}
    /\ initIdx' = 0
    /\ initStage' = "idle"

\* initializeServer(serverConfig) threw for instance i: this.servers.set is
\* skipped, the catch of initialize() reports the error and the loop goes on
InitFailure(i) ==
    /\ failed' = failed \cup {i}
    /\ AdvanceInit

\* an initializeServer that tests the type and not the command / url
Invalid_TypeOnly(cfg) == cfg.type \notin {"stdio", "sse", "streamable-http"}

\* what initializeServer rejects without any I/O: a type that is neither
\* stdio nor sse / streamable-http, no command, no url
Invalid(cfg) ==
    \/ cfg.type \notin {"stdio", "sse", "streamable-http"}
    \/ cfg.target = "absent"


\* -------------------------------------------------------------- actions

\* initialize(): the host starts the loop over config.servers
Initialize ==
    /\ initStage = "idle"
    /\ nInst = 0
    /\ initIdx' = 1
    /\ initStage' = "next"
    /\ lastOp' = "initialize"
    /\ UNCHANGED <<config, emitted, split, sessionId, servers, nInst, instCfg, initialized, tools,
                   requestId, pendingRequests, process, killed, req, issued,
                   sent, calls, lastCall, tornDown, failed>>

\* child_process.spawn(command): a command that does not exist gives a
\* ChildProcess that emits 'error' (the handler logs it) and never starts
Spawn(cfg) == IF cfg.target = "enoent" THEN "error" ELSE "running"

\* initializeServer for a configuration it rejects: the instance object is
\* created, the type dispatch or the command / url test throws
InitializeInvalid ==
    /\ initStage = "next"
    /\ Invalid(config[initIdx])
    /\ LET i == nInst + 1 IN
       /\ nInst' = i
       /\ instCfg' = [instCfg EXCEPT ![i] = initIdx]
       /\ InitFailure(i)
    /\ UNCHANGED <<config, emitted, split, sessionId, servers, initialized, tools,
                   requestId, pendingRequests, process, killed, req, issued,
                   sent, calls, lastCall, lastOp, tornDown>>

\* initializeServer + initializeStdioServer for a stdio configuration: spawn,
\* requestId = 0, a new Map, initialized = true, discoverToolsStdio sends
\* tools/list, then this.servers.set(name, instance)
InitializeStdioServer ==
    /\ initStage = "next"
    /\ config[initIdx].type = "stdio"
    /\ ~Invalid(config[initIdx])
    /\ LET i == nInst + 1 IN
       /\ nInst' = i
       /\ instCfg' = [instCfg EXCEPT ![i] = initIdx]
       /\ process' = [process EXCEPT ![i] = Spawn(config[initIdx])]
       /\ initialized' = [initialized EXCEPT ![i] = TRUE]
       /\ SendMCPRequest(i, "tools/list")
       /\ servers' = ServersSet(servers, config[initIdx].name, i)
    /\ AdvanceInit
    /\ UNCHANGED <<config, emitted, split, sessionId, tools, killed, calls, lastCall, lastOp,
                   tornDown, failed>>

\* an initialize() that posts the handshake and goes on to the next
\* configuration without awaiting it
InitializeSSEServer_NoAwait ==
    /\ initStage = "next"
    /\ config[initIdx].type \in {"sse", "streamable-http"}
    /\ ~Invalid(config[initIdx])
    /\ LET i == nInst + 1 IN
       /\ nInst' = i
       /\ instCfg' = [instCfg EXCEPT ![i] = initIdx]
       /\ SendStreamableHTTPRequest(i, "initialize", req,
                                    SessionHeader("none", config[initIdx]))
    /\ AdvanceInit
    /\ UNCHANGED <<config, emitted, split, servers, initialized, tools,
                   sessionId, pendingRequests, process, killed, calls,
                   lastCall, lastOp, tornDown, failed>>

\* an initializeServer that registers the instance before the handshake
InitializeSSEServer_RegistersFirst ==
    /\ initStage = "next"
    /\ config[initIdx].type \in {"sse", "streamable-http"}
    /\ ~Invalid(config[initIdx])
    /\ LET i == nInst + 1 IN
       /\ nInst' = i
       /\ instCfg' = [instCfg EXCEPT ![i] = initIdx]
       /\ SendStreamableHTTPRequest(i, "initialize", req,
                                    SessionHeader("none", config[initIdx]))
       /\ servers' = ServersSet(servers, config[initIdx].name, i)
    /\ initStage' = "awaitInit"
    /\ UNCHANGED <<config, emitted, split, initialized, tools, sessionId,
                   pendingRequests, process, killed, initIdx, calls,
                   lastCall, lastOp, tornDown, failed>>

\* initializeServer + initializeSSEServer up to the await of the initialize
\* request: requestId = 0, a new Map, the request is posted
InitializeSSEServer ==
    /\ initStage = "next"
    /\ config[initIdx].type \in {"sse", "streamable-http"}
    /\ ~Invalid(config[initIdx])
    /\ LET i == nInst + 1 IN
       /\ nInst' = i
       /\ instCfg' = [instCfg EXCEPT ![i] = initIdx]
       /\ SendStreamableHTTPRequest(i, "initialize", req,
                                    SessionHeader("none", config[initIdx]))
    /\ initStage' = "awaitInit"
    /\ UNCHANGED <<config, emitted, split, servers, initialized, tools, sessionId,
                   pendingRequests,
                   process, killed, initIdx, calls, lastCall, lastOp,
                   tornDown, failed>>

\* a data: line of an event stream: a JSON-RPC message with a result or
\* with an error, or text that is not JSON; the result of a tools/list
\* request carries a tools array or none
SSEEvents(method) ==
    [kind : {"result", "error", "bad"}, tools : {NoTools}]
    \cup [kind : IF method = "tools/list" THEN {"result"} ELSE {},
          tools : Catalogs]

SSEStreams(method) ==
    UNION {[1..n -> SSEEvents(method)] : n \in 0..MaxEvents}

\* the Mcp-Session-Id header a response can carry: a server that assigns
\* session ids answers initialize with "v" or with none, and a later request
\* with "w" (on a status or a JSON body) or with none
ResponseSids(cfg, method) ==
    IF cfg.target # "streaming" THEN {"none"}
    ELSE IF method = "initialize" THEN {"none", "v"} ELSE {"none", "w"}

\* what the environment can answer to the POST of a request with this
\* method: a non-2xx status, a JSON body (a result, an error object, or
\* text that response.json() rejects), an event stream
HttpResponses(cfg, method) ==
    [kind : {"status", "json_result", "json_error", "json_invalid"},
     tools : {NoTools}, events : {<<>>}, sid : ResponseSids(cfg, method)]
    \cup [kind : IF method = "tools/list" THEN {"json_result"} ELSE {},
          tools : Catalogs, events : {<<>>}, sid : ResponseSids(cfg, method)]
    \cup [kind : IF cfg.target = "streaming" THEN {"sse"} ELSE {},
          tools : {NoTools}, events : SSEStreams(method),
          sid : ResponseSids(cfg, method) \ {"w"}]

IsJSON(e) == e.kind # "bad"

\* a parser that returns the first event of the stream
ParseSSEResponse_First(stream) ==
    LET events == SelectSeq(stream, IsJSON) IN
    IF events = <<>> THEN [kind |-> "null", tools |-> NoTools]
    ELSE events[1]

\* parseSSEResponse: every data: line that parses is pushed to events, the
\* last element of events is the response; no event gives null
ParseSSEResponse(stream) ==
    LET events == SelectSeq(stream, IsJSON) IN
    IF events = <<>> THEN [kind |-> "null", tools |-> NoTools]
    ELSE events[Len(events)]

\* sendStreamableHTTPRequest after its await: what the caller gets
HttpOutcome(r, resp) ==
    CASE resp.kind = "status" -> Rejected(r, "http_error")
      [] resp.kind = "json_invalid" -> Rejected(r, "parse_error")
      [] resp.kind = "json_result" -> Resolved(r, "result")
      [] resp.kind = "json_error" -> Resolved(r, "error_object")
      [] resp.kind = "sse" ->
           LET last == ParseSSEResponse(resp.events) IN
           CASE last.kind = "result" -> Resolved(r, "result")
             [] last.kind = "error" -> Rejected(r, "remote_error")
             [] last.kind = "null" -> Resolved(r, "null")

\* response.tools of the value the caller of tools/list gets
HttpPayload(resp) ==
    CASE resp.kind = "json_result" -> resp.tools
      [] resp.kind = "sse" -> ParseSSEResponse(resp.events).tools
      [] OTHER -> NoTools

\* if (!initResponse) throw: a value that is an object passes
InitResponseOk(out) == out \in {"result", "error_object"}

\* executeTool returns (JSON.stringify(response)) when the awaited request
\* resolved and throws when it was rejected
ExecuteToolResolves(out) ==
    out \in {"result", "undefined", "null", "error_object"}

\* a handleToolCall that sends the response in its outer try, so that a
\* failure of sendToolResponse reaches the catch
HandleToolCall_SendInOuterTry(resolved, hasSession, sendOk) ==
    LET tried == IF resolved THEN <<"toolResult">> ELSE <<>>
        caught == ~resolved \/ (hasSession /\ ~sendOk)
    IN IF caught THEN tried \o <<"toolError">> ELSE tried

\* handleToolCall from the point where executeTool settles, as the emit()
\* calls it makes ("throw": an exception leaves it). The try emits
\* toolResult and then sends the response inside a try of its own, whose
\* catch only logs; the outer catch, reached only when executeTool threw,
\* emits toolError and sends the error inside a try of its own. Without a
\* session nothing is sent
HandleToolCall(resolved, hasSession, sendOk) ==
    LET tried == IF resolved THEN <<"toolResult">> ELSE <<>>
        caught == ~resolved
    IN IF caught THEN tried \o <<"toolError">> ELSE tried

\* what handleToolCall emits for the call that made request id of instance
\* i once executeTool has settled, for each way its environment can be: the
\* Gemini session present or gone, sendToolResponse succeeding or failing
ToolCallEvents(i, id, resolved) ==
    UNION {LET evs == HandleToolCall(resolved, env[1], env[2])
           IN {[inst |-> i, id |-> id, kind |-> evs[n],
                hasSession |-> env[1], sendOk |-> env[2]] :
                  n \in 1..Len(evs)} :
           env \in BOOLEAN \X BOOLEAN}

\* the tools/call requests of instance i that the step settles
SettledCalls(i) ==
    {d \in ReqIds : /\ req[i][d].method = "tools/call"
                    /\ req[i][d].out = "waiting"
                    /\ req'[i][d].out # "waiting"}

\* handleToolCall resumes for every tools/call request of instance i that
\* the step settles
EmitSettled(i) ==
    emitted' = emitted \cup UNION
       {ToolCallEvents(i, id, ExecuteToolResolves(req'[i][id].out)) :
           id \in SettledCalls(i)}

\* the request record once its fetch has completed with resp: the outcome,
\* the session header the response carried, and whether a tools/list was
\* answered by a stream of more than one message
HttpSettled(r, resp) ==
    [HttpOutcome(r, resp) EXCEPT
        !.rsid = IF r.method = "initialize" THEN resp.sid ELSE "none",
        !.multi = /\ r.method = "tools/list"
                  /\ Len(SelectSeq(resp.events, IsJSON)) > 1]

\* the fetch of request id of instance i completes with resp; the awaiting
\* function (initializeSSEServer, discoverToolsStreamableHTTP, executeTool)
\* resumes
HttpResponse(i, id, resp) ==
    /\ ~Busy
    /\ IsHttp(i)
    /\ req[i][id].out = "waiting"
    /\ LET r == req[i][id]
           s == HttpSettled(r, resp)
           rq == [req EXCEPT ![i][id] = s]
           sid == SessionAfterResponse(sessionId[i], r.method, resp)
       IN /\ sessionId' = [sessionId EXCEPT ![i] = sid]
          /\ CASE r.method = "initialize" /\ InitResponseOk(s.out) ->
                 \* initResponse is truthy: initialized, then tools/list
                 /\ initialized' = [initialized EXCEPT ![i] = TRUE]
                 /\ SendStreamableHTTPRequest(i, "tools/list", rq,
                                              SessionHeader(sid, CfgOf(i)))
                 /\ initStage' = "awaitList"
                 /\ UNCHANGED <<servers, tools, initIdx, failed>>
            [] r.method = "initialize" /\ ~InitResponseOk(s.out) ->
                 \* the handshake failed: initializeServer throws
                 /\ req' = rq
                 /\ InitFailure(i)
                 /\ UNCHANGED <<servers, initialized, tools, requestId,
                                issued, sent>>
            [] r.method = "tools/list" ->
                 /\ req' = rq
                 /\ tools' = ToolsAfterDiscovery(i, r, s.out,
                                                 HttpPayload(resp))
                 /\ servers' = ServersSet(servers, CfgOf(i).name, i)
                 /\ AdvanceInit
                 /\ UNCHANGED <<initialized, requestId, issued, sent, failed>>
            [] r.method = "tools/call" ->
                 /\ req' = rq
                 /\ UNCHANGED <<servers, initialized, tools, requestId,
                                issued, sent, initIdx, initStage, failed>>
    /\ EmitSettled(i)
    /\ UNCHANGED <<config, split, nInst, instCfg, pendingRequests, process,
                   killed, calls, lastCall, lastOp, tornDown>>

\* an id that no request of the run carries
NeverIssued == 0 - 1

\* what a stdout line of instance i can be: not JSON, or a JSON message
\* without an id (0), with the id of a request that is pending, of one
\* that is no longer pending or with an id the instance never issued,
\* carrying a result, an error or, for a message without an id or for a
\* pending request, neither; the result of a pending tools/list request
\* carries a tools array or none
StdoutLines(i) ==
    LET open == pendingRequests[i] \cap (1..requestId[i])
        closed == (1..requestId[i]) \ open
        lists == {id \in open : req[i][id].method = "tools/list"}
    IN [id : open \cup {0}, kind : {"result", "error", "bare"},
        tools : {NoTools}]
       \cup [id : closed \cup {NeverIssued}, kind : {"result", "error"},
             tools : {NoTools}]
       \cup [id : lists, kind : {"result"}, tools : Catalogs]
       \cup [id : {0}, kind : {"garbage"}, tools : {NoTools}]

\* the first piece of a line is on its way and the rest has not arrived
MidLine(i) == \E id \in ReqIds : split[i][id] = "head"

\* spawnedProcess.stdout.on('data') for a chunk that holds one line: the
\* line is parsed and handled; a line that does not parse is dropped
StdoutData(i, msg) ==
    /\ ~Busy
    /\ process[i] \in {"running", "exited"}
    /\ ~MidLine(i)
    /\ IF msg.kind = "garbage"
       THEN UNCHANGED <<pendingRequests, req, tools>>
       ELSE HandleMCPResponse(i, msg)
    /\ EmitSettled(i)
    /\ UNCHANGED <<config, split, sessionId, servers, nInst, instCfg, initialized, requestId,
                   process, killed, issued, sent, initIdx, initStage, calls,
                   lastCall, lastOp, tornDown, failed>>

\* the elements of data.toString().split('\n'): a line record with the
\* part of the provider's line it holds ("whole", or the "head" or "tail"
\* of a line that came in two chunks); kind "blank" is the empty string
\* after a final newline
Line(id, kind, part) ==
    [id |-> id, kind |-> kind, tools |-> NoTools, part |-> part]
Blank == Line(0, "blank", "whole")

\* JSON.parse(line) returns: the text is a whole JSON message
Parses(line) == line.part = "whole" /\ line.kind \notin {"garbage", "blank"}

\* if (!line.trim()) continue
NonBlank(line) == line.kind # "blank"

\* a loop that ends at the first line that does not parse
LinesToParse_UntilFailure(chunk) ==
    LET bad == {k \in 1..Len(chunk) : NonBlank(chunk[k]) /\ ~Parses(chunk[k])}
    IN IF bad = {} THEN SelectSeq(chunk, NonBlank)
       ELSE SelectSeq(SubSeq(chunk, 1, Min(bad) - 1), NonBlank)

\* the lines of a chunk that reach the try block: all that are not blank;
\* nothing is kept from one 'data' event to the next
LinesToParse(chunk) == SelectSeq(chunk, NonBlank)

\* one pass of the try block on the instance state st (its pending Map, its
\* requests, its catalog): handleMCPResponse for a line that parses, the
\* catch for one that does not
AfterLine(i, line, st) ==
    IF Parses(line) /\ line.id # 0 /\ line.id \in st.pending
    THEN LET r == st.req[line.id]
             s == ResponseOutcome(ClearTimeout(r), line)
             t == ToolsAfterDiscovery(i, r, s.out, line.tools)
         IN [pending |-> st.pending \ {line.id},
             req |-> [st.req EXCEPT ![line.id] = s],
             tools |-> IF t # tools THEN t[i] ELSE st.tools]
    ELSE st

\* for (const line of lines)
RECURSIVE HandleLines(_, _, _)
HandleLines(i, lines, st) ==
    IF lines = <<>> THEN st
    ELSE HandleLines(i, Tail(lines), AfterLine(i, Head(lines), st))

\* the chunks the stdout of a freely chunking server can deliver: the head
\* of a response line to a pending request, the tail of the line whose head
\* was delivered, or two whole responses to pending requests with a line
\* that is not JSON between them
Chunks(i) ==
    IF ~(IsStdio(i) /\ CfgOf(i).target = "chunky") THEN {}
    ELSE IF MidLine(i)
    THEN {<<Line(id, "result", "tail"), Blank>> :
             id \in {k \in ReqIds : split[i][k] = "head"}}
    ELSE {<<Line(id, "result", "head")>> :
             id \in {k \in pendingRequests[i] : split[i][k] = "none"}}
         \cup {<<Line(p[1], "result", "whole"), Line(0, "garbage", "whole"),
                 Line(p[2], kind, "whole"), Blank>> :
                 p \in {q \in pendingRequests[i] \X pendingRequests[i] :
                           q[1] # q[2]},
                 kind \in {"result", "error"}}

\* the pieces of split lines given to the handler of an instance, with
\* those of a chunk recorded
Delivered(sp, chunk) ==
    [id \in ReqIds |->
        IF \E k \in 1..Len(chunk) : chunk[k].id = id /\ chunk[k].part = "head"
        THEN "head"
        ELSE IF \E k \in 1..Len(chunk) :
                    chunk[k].id = id /\ chunk[k].part = "tail"
        THEN "all"
        ELSE sp[id]]

\* spawnedProcess.stdout.on('data') for any chunk: split on newlines, each
\* non-blank line parsed and handled on its own
StdoutChunk(i, chunk) ==
    /\ ~Busy
    /\ process[i] \in {"running", "exited"}
    /\ LET st == HandleLines(i, LinesToParse(chunk),
                             [pending |-> pendingRequests[i],
                              req |-> req[i], tools |-> tools[i]])
       IN /\ pendingRequests' = [pendingRequests EXCEPT ![i] = st.pending]
          /\ req' = [req EXCEPT ![i] = st.req]
          /\ split' = [split EXCEPT ![i] = Delivered(@, chunk)]
          /\ tools' = [tools EXCEPT ![i] = st.tools]
    /\ EmitSettled(i)
    /\ UNCHANGED <<config, sessionId, servers, nInst, instCfg, initialized,
                   requestId, process, killed, issued, sent, initIdx,
                   initStage, calls, lastCall, lastOp, tornDown, failed>>

\* the setTimeout callback of sendMCPRequest
Timeout(i, id) ==
    /\ ~Busy
    /\ req[i][id].timer = "armed"
    /\ LET r == req[i][id]
           s == Rejected(r, "timeout")
       IN /\ pendingRequests' = [pendingRequests EXCEPT ![i] = @ \ {id}]
          /\ req' = [req EXCEPT ![i][id] = [s EXCEPT !.timer = "fired"]]
          /\ tools' = ToolsAfterDiscovery(i, r, s.out, NoTools)
    /\ EmitSettled(i)
    /\ UNCHANGED <<config, split, sessionId, servers, nInst, instCfg, initialized, requestId,
                   process, killed, issued, sent, initIdx, initStage, calls,
                   lastCall, lastOp, tornDown, failed>>

\* an 'exit' handler that rejects what is pending and empties the Map
ProcessExit_RejectsPending(i) ==
    /\ ~Busy
    /\ process[i] = "running"
    /\ process' = [process EXCEPT ![i] = "exited"]
    /\ initialized' = [initialized EXCEPT ![i] = FALSE]
    /\ req' = [req EXCEPT ![i] =
                  [id \in ReqIds |->
                      IF id \in pendingRequests[i]
                      THEN Rejected(ClearTimeout(req[i][id]), "exited")
                      ELSE req[i][id]]]
    /\ pendingRequests' = [pendingRequests EXCEPT ![i] = {}]
    /\ UNCHANGED <<config, emitted, split, sessionId, servers, nInst, instCfg, tools,
                   requestId, killed, issued, sent, initIdx, initStage,
                   calls, lastCall, lastOp, tornDown, failed>>

\* spawnedProcess.on('exit'); the stdout 'data' handler stays attached and
\* the stream can still deliver what the process wrote before it ended
ProcessExit(i) ==
    /\ ~Busy
    /\ process[i] = "running"
    /\ process' = [process EXCEPT ![i] = "exited"]
    /\ initialized' = [initialized EXCEPT ![i] = FALSE]
    /\ UNCHANGED <<config, emitted, split, sessionId, servers, nInst, instCfg, tools, requestId,
                   pendingRequests, killed, req, issued, sent, initIdx,
                   initStage, calls, lastCall, lastOp, tornDown, failed>>

\* getTools(): the tools of the servers of this.servers.values() that are
\* initialized, one server after the other
RECURSIVE ToolsOfFirst(_)
ToolsOfFirst(k) ==
    IF k = 0 THEN <<>>
    ELSE ToolsOfFirst(k - 1) \o
         (IF initialized[servers[k].inst] THEN tools[servers[k].inst]
          ELSE <<>>)

\* a getTools that returns the catalog of the first registered server
GetTools_FirstOnly ==
    IF servers = <<>> THEN <<>> ELSE tools[servers[1].inst]

GetTools == ToolsOfFirst(Len(servers))

\* getToolDefinitionsForGemini(): one declaration per element of getTools()
GetToolDefinitionsForGemini ==
    [k \in 1..Len(GetTools) |->
        [name |-> GetTools[k], parameters |-> "object"]]

\* getInitializedServersCount(): the registered servers with initialized
GetInitializedServersCount ==
    Cardinality({k \in 1..Len(servers) : initialized[servers[k].inst]})

HasTool(i, n) == \E k \in 1..Len(tools[i]) : tools[i][k] = n

\* a scan that falls back to the first registered server
FindServer_Fallback(n) ==
    LET owners == {k \in 1..Len(servers) : HasTool(servers[k].inst, n)}
    IN IF owners # {} THEN servers[Min(owners)].inst
       ELSE IF servers # <<>> THEN servers[1].inst ELSE 0

\* a scan that keeps the last server whose tools contain the name
FindServer_Last(n) ==
    LET owners == {k \in 1..Len(servers) : HasTool(servers[k].inst, n)}
    IN IF owners = {} THEN 0
       ELSE servers[CHOOSE k \in owners : \A l \in owners : l <= k].inst

\* the scan of executeTool: the first server of this.servers.values() whose
\* tools contain the name; 0 when there is none
FindServer(n) ==
    LET owners == {k \in 1..Len(servers) : HasTool(servers[k].inst, n)}
    IN IF owners = {} THEN 0 ELSE servers[Min(owners)].inst

\* the message of the Error that handleMCPResponse rejects with when the
\* response has an error object with a message: response.error.message
RemoteErrorMessage == "error.message"

\* the message of the Error that the catch of executeTool throws when the
\* awaited request was rejected with message m, as the pieces of its
\* template literal
ExecuteToolError(toolName, m) ==
    <<"Failed to execute tool ", toolName, ": ", m>>

\* handleToolCall for a function call named n up to the await inside
\* executeTool(n); a name no server has makes executeTool throw at once.
\* Function calls come from a Gemini session, so connect() has run; the
\* sessions go on after close()
ExecuteTool(n) ==
    /\ ~Busy
    /\ lastOp \notin {"none", "initialize"}
    /\ calls < MaxCalls
    /\ calls' = calls + 1
    /\ LET t == FindServer(n) IN
       IF t = 0
       THEN /\ lastCall' = [name |-> n, target |-> 0,
                            outcome |-> "not_found"]
            /\ emitted' = emitted \cup ToolCallEvents(0, calls', FALSE)
            /\ UNCHANGED <<requestId, issued, pendingRequests, req, sent>>
       ELSE /\ lastCall' = [name |-> n, target |-> t,
                            outcome |-> "dispatched"]
            /\ UNCHANGED emitted
            /\ IF IsStdio(t)
               THEN SendMCPRequest(t, "tools/call")
               ELSE /\ SendStreamableHTTPRequest(
                          t, "tools/call", req,
                          SessionHeader(sessionId[t], CfgOf(t)))
                    /\ UNCHANGED pendingRequests
    /\ UNCHANGED <<config, split, sessionId, servers, nInst, instCfg, initialized, tools,
                   process, killed, initIdx, initStage, lastOp, tornDown, failed>>

\* a shutdown that kills the processes and keeps the registry
Shutdown_NoClear ==
    /\ ~Busy
    /\ killed' = killed \cup {i \in Registered : process[i] # "none"}
    /\ tornDown' = tornDown \cup Registered
    /\ lastOp' = IF initStage = "idle" THEN "shutdown"
                 ELSE "shutdown_during_initialize"
    /\ UNCHANGED <<config, emitted, split, sessionId, servers, nInst, instCfg, initialized,
                   tools, requestId, pendingRequests, process, req, issued,
                   sent, initIdx, initStage, calls, lastCall, failed>>

\* shutdown(): kill() on every registered instance with a process, then
\* this.servers.clear()
Shutdown ==
    /\ ~Busy
    /\ killed' = killed \cup {i \in Registered : process[i] # "none"}
    /\ tornDown' = tornDown \cup Registered
    /\ servers' = <<>>
    /\ lastOp' = IF initStage = "idle" THEN "shutdown"
                 ELSE "shutdown_during_initialize"
    /\ UNCHANGED <<config, emitted, split, sessionId, nInst, instCfg, initialized, tools, requestId,
                   pendingRequests, process, req, issued, sent, initIdx,
                   initStage, calls, lastCall, failed>>

\* a provider that counts as initialized has its tools/list still waiting
Discovering ==
    \E i \in Registered : \E id \in ReqIds :
        /\ initialized[i]
        /\ req[i][id].method = "tools/list"
        /\ req[i][id].out = "waiting"

\* the host's 'connection' handler: handleConnection makes a Gemini client
\* and calls connect(), which reads getToolDefinitionsForGemini() at once;
\* the listener is installed by the constructor before initializeMCP() is
\* called and nothing in it waits for initialize(); close() ends the
\* listening
Connect ==
    /\ ~Busy
    /\ lastOp \in {"initialize", "connect"}
    /\ lastOp' = "connect"
    /\ UNCHANGED <<config, emitted, split, sessionId, servers, nInst, instCfg,
                   initialized, tools, requestId, pendingRequests, process,
                   killed, req, issued, sent, initIdx, initStage, calls,
                   lastCall, tornDown, failed>>

Next ==
    \/ Initialize
    \/ InitializeStdioServer
    \/ InitializeSSEServer
    \/ InitializeInvalid
    \/ \E i \in 1..nInst, id \in ReqIds :
          \E resp \in HttpResponses(CfgOf(i), req[i][id].method) :
             HttpResponse(i, id, resp)
    \/ \E i \in InstIds : \E msg \in StdoutLines(i) : StdoutData(i, msg)
    \/ \E i \in 1..nInst : \E chunk \in Chunks(i) : StdoutChunk(i, chunk)
    \/ \E i \in InstIds, id \in ReqIds : Timeout(i, id)
    \/ \E i \in InstIds : ProcessExit(i)
    \/ \E n \in ToolNames \cup {"unknown"} : ExecuteTool(n)
    \/ Shutdown
    \/ Connect

Spec == Init /\ [][Next]_vars


\* timers fire and the continuation of an await of a settled promise runs;
\* the host, the providers and the network promise nothing
Timers == \E i \in InstIds, id \in ReqIds : Timeout(i, id)
FairSpec ==
    /\ Spec
    /\ WF_vars(Timers)
    /\ WF_vars(InitializeStdioServer \/ InitializeSSEServer
                  \/ InitializeInvalid)

\* ---------------------------------------------------------------- claims

StdioRequests ==
    {p \in InstIds \X ReqIds : IsStdio(p[1]) /\ req[p[1]][p[2]].method # "none"}

\* C1: the resolve and reject functions of the promise of a request sent by
\* sendMCPRequest are called at most once in total, under every interleaving
\* of responses, duplicate responses, the timer, process exit and shutdown()
C1_SettledAtMostOnce ==
    \A p \in StdioRequests :
        req[p[1]][p[2]].nres + req[p[1]][p[2]].nrej <= 1

\* a request settled by a response on an instance whose process has exited
\* and that shutdown() tore down, next to a request the timer rejected
C1_Witness ==
    \E i \in InstIds :
        /\ IsStdio(i) /\ process[i] = "exited" /\ i \in tornDown
        /\ \E id \in ReqIds : req[i][id].out = "result" /\ req[i][id].nres = 1
        /\ \E id \in ReqIds : req[i][id].out = "timeout" /\ req[i][id].nrej = 1

\* the step of a timer that fires rejects the caller with the timeout
\* failure and removes the entry from the Map
TimerRejects ==
    \A p \in InstIds \X ReqIds :
        (req[p[1]][p[2]].timer = "armed" /\ req'[p[1]][p[2]].timer = "fired")
            => /\ req'[p[1]][p[2]].out = "timeout"
               /\ p[2] \notin pendingRequests'[p[1]]

\* no request sent to a stdio provider is waiting or left in the Map
AllStdioSettled ==
    \A p \in StdioRequests :
        /\ req[p[1]][p[2]].out # "waiting"
        /\ p[2] \notin pendingRequests[p[1]]

\* C2: every request sent to a stdio provider eventually settles and leaves
\* the Map, whatever happens to the process and the registry: at every
\* moment a later moment comes at which none is waiting; and when a timer
\* fires, the caller is rejected with a timeout and the entry is removed
C2_EventuallySettles ==
    /\ []<>AllStdioSettled
    /\ [][TimerRejects]_vars

\* a request that timed out after the process had exited and shutdown() ran
C2_Witness ==
    \E i \in InstIds, id \in ReqIds :
        /\ IsStdio(i) /\ process[i] = "exited" /\ i \in tornDown
        /\ req[i][id].out = "timeout" /\ req[i][id].timer = "fired"
        /\ id \notin pendingRequests[i]


\* C3 (as claimed): every call that is waiting, on every transport, has an
\* entry in the Map of its instance and an armed timer of 10 s (initialize,
\* tools/list) or 30 s (tools/call)
C3_EveryCallHasDeadline ==
    \A i \in InstIds, id \in ReqIds :
        req[i][id].out = "waiting"
            => /\ id \in pendingRequests[i]
               /\ req[i][id].timer = "armed"
               /\ req[i][id].ms = TimeoutMs(req[i][id].method)

\* C4: the ids one instance assigns start at 1 and strictly increase in
\* issue order, so none is used twice, whatever became of earlier requests
C4_IdsIncrease ==
    \A i \in InstIds :
        /\ Len(issued[i]) > 0 => issued[i][1] = 1
        /\ \A k \in 1..(Len(issued[i]) - 1) : issued[i][k] < issued[i][k + 1]

\* an instance that assigned a further id after one of its requests failed
C4_Witness ==
    \E i \in InstIds :
        \E k \in 1..(Len(issued[i]) - 1) :
            /\ req[i][k].out \in {"timeout", "remote_error", "http_error"}
            /\ issued[i][k + 1] = k + 1

\* C5 (as claimed): no request of a stdio provider is settled by a message
\* that carries its id but neither a result nor an error
C5_BareMessageDoesNotSettle ==
    \A p \in StdioRequests : req[p[1]][p[2]].out # "undefined"

\* the registered instances that are initialized and own the name
ReadyOwners(n) == {i \in Registered : initialized[i] /\ HasTool(i, n)}

\* C6 (as claimed): an executeTool call for a name that exactly one Ready
\* provider owns puts a request on the transport of that provider and of no
\* other
C6_RoutesToTheReadyOwner ==
    [][calls' = calls + 1 =>
          (Cardinality(ReadyOwners(lastCall'.name)) = 1 =>
              \A i \in InstIds :
                  sent'[i] # sent[i] <=> i \in ReadyOwners(lastCall'.name))]_vars

\* C7: an executeTool call for a name in no registered catalog fails with
\* not-found and touches no transport, id counter, Map or request
C7_UnknownToolNoIO ==
    [][(calls' = calls + 1
          /\ \A i \in Registered : ~HasTool(i, lastCall'.name))
          => /\ lastCall'.outcome = "not_found"
             /\ UNCHANGED <<sent, requestId, issued, pendingRequests, req>>]_vars

\* a not-found call while a provider with a catalog is registered
C7_Witness ==
    /\ lastCall.outcome = "not_found"
    /\ \E i \in Registered : tools[i] # <<>> /\ ~HasTool(i, lastCall.name)

\* C8 (as claimed): the Map of every instance that shutdown() tore down is
\* empty
C8_PendingEmptyAfterShutdown ==
    \A i \in tornDown : pendingRequests[i] = {}

\* C9 (as claimed): once shutdown() has run after initialize() completed,
\* every process still running has been sent a kill
C9_EverySpawnedProcessKilled ==
    lastOp = "shutdown" =>
        \A i \in InstIds : process[i] = "running" => i \in killed

\* C10 (as claimed): no caller is still waiting on a request of an instance
\* that shutdown() tore down
C10_NoCallerWaitingAfterShutdown ==
    \A i \in tornDown, id \in ReqIds : req[i][id].out # "waiting"

HttpInstances == {i \in 1..nInst : IsHttp(i)}

Max(S) == CHOOSE x \in S : \A y \in S : x >= y

\* the step settles request id of instance i by the last event of the
\* stream that parses, if there is one
SettledByLastEvent(i, id, stream) ==
    LET idx == {k \in 1..Len(stream) : stream[k].kind # "bad"} IN
    idx # {} =>
       LET last == stream[Max(idx)] IN
       /\ req'[i][id].out =
             IF last.kind = "result" THEN "result" ELSE "remote_error"
       /\ req[i][id].method = "tools/list" =>
             tools'[i] = IF last.kind = "result" /\ last.tools # NoTools
                         THEN last.tools
                         ELSE <<>>

\* C12: when the response to a request is an event stream with data events,
\* the caller is settled by the last event that parses and by no earlier
\* one: with its result, or as a failure when it carries an error; the
\* catalog after a tools/list answered this way is the tools array of that
\* last event, empty when it has none
C12_LastEventIsTheResponse ==
    [][\A i \in HttpInstances : \A id \in ReqIds :
          (req[i][id].out = "waiting" /\ req'[i][id].out # "waiting") =>
          \A resp \in HttpResponses(CfgOf(i), req[i][id].method) :
             resp.kind = "sse" =>
                \/ SettledByLastEvent(i, id, resp.events)
                \/ req'[i][id] # HttpSettled(req[i][id], resp)
                \/ ~HttpResponse(i, id, resp)]_vars

\* a tools/list answered by a stream of more than one event left a catalog
C12_Witness ==
    \E i \in HttpInstances : \E id \in ReqIds :
        /\ req[i][id].method = "tools/list"
        /\ req[i][id].multi
        /\ req[i][id].out = "result"
        /\ tools[i] = <<"echo">>

\* C13: when two Ready providers both expose a tool name, the merged
\* catalog of getTools / getToolDefinitionsForGemini holds exactly one
\* entry with that name
C13_OneEntryPerName ==
    \A n \in ToolNames :
        Cardinality(ReadyOwners(n)) >= 2 =>
           /\ Cardinality({k \in 1..Len(GetTools) : GetTools[k] = n}) = 1
           /\ Cardinality({k \in 1..Len(GetToolDefinitionsForGemini) :
                              GetToolDefinitionsForGemini[k].name = n}) = 1

C15_FailedSpawnIsolated ==
    LET bad == {i \in 1..nInst : process[i] = "error"} IN
    /\ GetInitializedServersCount =
          Cardinality({k \in 1..Len(servers) :
                          /\ initialized[servers[k].inst]
                          /\ servers[k].inst \notin bad})
    /\ \A i \in bad :
          /\ i \in Registered /\ initialized[i] => tools[i] = <<>>
          /\ \A id \in ReqIds : req[i][id].method # "tools/call"

\* C16 (as claimed): on every transport a response that matches a waiting
\* request settles its caller as a failure when it carries an error field
\* and as a success with the result when it carries a result field: a
\* stdout line, a JSON body, the last event of an event stream
C16_ErrorFailsResultSucceeds ==
    [][/\ \A i \in 1..nInst : \A msg \in StdoutLines(i) :
             (/\ msg.id \in pendingRequests[i]
              /\ msg.kind \in {"result", "error"}
              /\ StdoutData(i, msg))
             => req'[i][msg.id].out =
                   IF msg.kind = "error" THEN "remote_error" ELSE "result"
       /\ \A i \in HttpInstances : \A id \in ReqIds :
             (req[i][id].out = "waiting" /\ req'[i][id].out # "waiting") =>
             \A resp \in HttpResponses(CfgOf(i), req[i][id].method) :
                HttpResponse(i, id, resp) =>
                LET last == IF resp.kind = "sse"
                            THEN ParseSSEResponse(resp.events).kind
                            ELSE "none"
                IN /\ (resp.kind = "json_error" \/ last = "error")
                      => /\ req'[i][id].nrej = 1
                         /\ req'[i][id].out = "remote_error"
                   /\ (resp.kind = "json_result" \/ last = "result")
                      => /\ req'[i][id].nres = 1
                         /\ req'[i][id].out = "result"]_vars

\* C17: a non-2xx status in answer to a tools/list or tools/call request of
\* an HTTP provider fails that request and nothing else: every other
\* request, the initialized flags and the session tokens are unchanged,
\* and for tools/call the catalogs and the registry are unchanged too
C17_StatusErrorFailsOnlyThatRequest ==
    [][\A i \in HttpInstances : \A id \in ReqIds :
          (/\ req[i][id].out = "waiting"
           /\ req'[i][id].out # "waiting"
           /\ req[i][id].method # "initialize") =>
          \A resp \in HttpResponses(CfgOf(i), req[i][id].method) :
             (resp.kind = "status" /\ HttpResponse(i, id, resp)) =>
             /\ req'[i][id].out = "http_error"
             /\ \A j \in InstIds : \A k \in ReqIds :
                   <<j, k>> # <<i, id>> => req'[j][k] = req[j][k]
             /\ initialized' = initialized
             /\ sessionId' = sessionId
             /\ req[i][id].method = "tools/call" =>
                   tools' = tools /\ servers' = servers]_vars

\* after a tools/call that failed with a status error the next tools/call
\* to the same provider was posted with the session token and succeeded
C17_Witness ==
    \E i \in HttpInstances :
        /\ initialized[i]
        /\ sessionId[i] = "v"
        /\ req[i][3].method = "tools/call" /\ req[i][3].out = "http_error"
        /\ req[i][4].method = "tools/call" /\ req[i][4].out = "result"
        /\ req[i][4].hdr = "v"

\* the ways a request fails: its timer, an error of the provider, a non-2xx
\* status, a body that does not parse
Failures == {"timeout", "remote_error", "http_error", "parse_error"}

\* a provider name is in service when the registry maps it to an instance
\* with initialized true
InService(n) ==
    \E k \in 1..Len(servers) :
        servers[k].name = n /\ initialized[servers[k].inst]

\* C18: a step in which a tools/call fails (timeout, remote error, HTTP
\* status error, unparsable response) leaves every initialized flag, every
\* catalog and the registry unchanged; a provider that is in service leaves
\* service only in a step where its process exits or shutdown() clears the
\* registry
C18_FailedCallKeepsProviderReady ==
    [][/\ \A i \in 1..nInst : \A id \in ReqIds :
             (/\ req[i][id].method = "tools/call"
              /\ req[i][id].out = "waiting"
              /\ req'[i][id].out \in Failures)
             => /\ initialized' = initialized
                /\ tools' = tools
                /\ servers' = servers
       /\ \A n \in {"a", "b"} :
             (InService(n) /\ ~InService(n)') =>
                \/ servers' = <<>>
                \/ \E i \in 1..nInst :
                      process[i] = "running" /\ process'[i] = "exited"]_vars

\* an HTTP provider and a stdio provider, both still Ready with their
\* catalogs after a tools/call that failed: one on an unparsable body, the
\* other on its timeout
C18_Witness ==
    \E i, j \in 1..nInst :
        /\ IsHttp(i) /\ IsStdio(j)
        /\ {i, j} \subseteq Registered
        /\ initialized[i] /\ initialized[j]
        /\ tools[i] # <<>> /\ tools[j] # <<>>
        /\ \E id \in ReqIds : /\ req[i][id].method = "tools/call"
                               /\ req[i][id].out = "parse_error"
        /\ \E id \in ReqIds : /\ req[j][id].method = "tools/call"
                               /\ req[j][id].out = "timeout"

\* the step is the 'exit' event of the process of instance i
Exits(i) == process[i] = "running" /\ process'[i] = "exited"

\* the exit of a stdio process sets initialized to false and settles
\* nothing: every request and every Map stay as they are
ExitSettlesNothing ==
    \A i \in 1..nInst :
        Exits(i) => /\ ~initialized'[i]
                    /\ req' = req
                    /\ pendingRequests' = pendingRequests

\* C19 (as claimed): the exit sets initialized to false and settles no
\* pending request, and a request that is pending on an exited process
\* settles only by its own timer
C19_OnlyTheDeadlineSettlesAfterExit ==
    [][/\ ExitSettlesNothing
       /\ \A i \in 1..nInst : \A id \in pendingRequests[i] :
             (process[i] = "exited" /\ req'[i][id] # req[i][id])
             => /\ req'[i][id].timer = "fired"
                /\ req'[i][id].out = "timeout"]_vars

\* C19 (amended): the exit sets initialized to false and settles no pending
\* request; a request that is pending on an exited process leaves the Map
\* only when its own timer rejects it or when a line with its id, still
\* delivered on the process's stdout, settles it and clears the timer
C19_ExitSettlesNoRequest ==
    [][/\ ExitSettlesNothing
       /\ \A i \in 1..nInst : \A id \in pendingRequests[i] :
             (process[i] = "exited" /\ req'[i][id] # req[i][id])
             => /\ id \notin pendingRequests'[i]
                /\ \/ /\ req'[i][id].timer = "fired"
                      /\ req'[i][id].out = "timeout"
                   \/ /\ req'[i][id].timer = "cleared"
                      /\ req'[i][id].out \in
                            {"result", "remote_error", "undefined"}]_vars

\* the process has exited, initialized is false, one request was rejected by
\* its timer after being left pending and another one is still in the Map
\* with its timer armed
C19_Witness ==
    \E i \in 1..nInst : \E id, id2 \in ReqIds :
        /\ process[i] = "exited"
        /\ ~initialized[i]
        /\ req[i][id].out = "timeout"
        /\ id2 \in pendingRequests[i]
        /\ req[i][id2].timer = "armed"
        /\ req[i][id2].out = "waiting"

\* C20: with two or more requests in flight on one stdio provider, a
\* stdout line that carries the id of one of them settles that request with
\* what the line carries and removes it from the Map, and leaves every
\* other request of every provider, and its Map entry, as it was, in
\* whatever order the lines arrive
C20_ResponseSettlesItsOwnRequest ==
    [][\A i \in 1..nInst :
          (/\ Cardinality(pendingRequests[i]) >= 2
           /\ sent' = sent /\ process' = process /\ calls' = calls)
          => \A msg \in StdoutLines(i) :
          (/\ msg.id \in pendingRequests[i]
           /\ StdoutData(i, msg))
          => /\ msg.id \notin pendingRequests'[i]
             /\ msg.kind = "result" => req'[i][msg.id].out = "result"
             /\ msg.kind = "error" => req'[i][msg.id].out = "remote_error"
             /\ req'[i][msg.id].nres + req'[i][msg.id].nrej = 1
             /\ \A j \in InstIds : \A k \in ReqIds :
                   <<j, k>> # <<i, msg.id>> =>
                      /\ req'[j][k] = req[j][k]
                      /\ k \in pendingRequests'[j] <=> k \in pendingRequests[j]
         ]_vars

\* two tools/call requests were in flight on one stdio provider and the
\* later one has been answered first: it holds the result, the earlier one
\* still waits in the Map
C20_Witness ==
    \E i \in 1..nInst : \E a, b \in ReqIds :
        /\ IsStdio(i)
        /\ a < b
        /\ req[i][a].method = "tools/call" /\ req[i][b].method = "tools/call"
        /\ req[i][a].out = "waiting" /\ a \in pendingRequests[i]
        /\ req[i][b].out = "result" /\ b \notin pendingRequests[i]

\* C21: within one provider the requests are put on the transport in the
\* order they were issued: the ids written to stdin, or posted, are the ids
\* assigned, in the same increasing order, and none overtakes an earlier one
C21_SentInIssueOrder ==
    \A i \in InstIds :
        /\ sent[i] = issued[i]
        /\ \A k, l \in 1..Len(sent[i]) : k < l => sent[i][k] < sent[i][l]

\* a stdio provider with discovery and two concurrent tools/call requests
\* written to stdin, both calls still in flight
C21_Witness ==
    \E i \in 1..nInst :
        /\ IsStdio(i)
        /\ sent[i] = <<1, 2, 3>>
        /\ req[i][2].out = "waiting" /\ req[i][3].out = "waiting"
        /\ {2, 3} \subseteq pendingRequests[i]

\* what a tools/list settles with when it brings no catalog, besides a
\* result without a tools array: a failure, or a value that is no result
NoCatalog == Failures \cup {"undefined", "null", "error_object"}

\* after the step the catalog of instance i is empty and i is as ready as it
\* was: initialized is unchanged, a stdio instance keeps its place in the
\* registry, an HTTP instance is registered and counted
StillReadyWithoutCatalog(i) ==
    /\ tools'[i] = <<>>
    /\ initialized'[i] = initialized[i]
    /\ IsStdio(i) => servers' = servers
    /\ IsHttp(i) => /\ i \in Registered'
                    /\ initialized'[i]
                    /\ GetInitializedServersCount' >= 1

\* C22: a tools/list that fails (timeout, remote error, HTTP error) or that
\* is answered without a tools array leaves the catalog of the provider
\* empty and its readiness as it was: initialized, registered, counted
C22_DiscoveryFailureKeepsProviderReady ==
    [][\A i \in 1..nInst : \A id \in ReqIds :
          (/\ req[i][id].method = "tools/list"
           /\ req[i][id].out = "waiting"
           /\ req'[i][id].out # "waiting")
          => /\ req'[i][id].out \in NoCatalog => StillReadyWithoutCatalog(i)
             /\ \A msg \in StdoutLines(i) :
                   (msg.id = id /\ msg.kind = "result" /\ msg.tools = NoTools)
                   => \/ StillReadyWithoutCatalog(i)
                      \/ ~StdoutData(i, msg)
             /\ IsHttp(i) =>
                   \A resp \in HttpResponses(CfgOf(i), "tools/list") :
                      (resp.kind \in {"json_result", "sse"}
                       /\ HttpPayload(resp) = NoTools)
                      => \/ StillReadyWithoutCatalog(i)
                         \/ ~HttpResponse(i, id, resp)]_vars

\* an HTTP provider whose tools/list got a non-2xx status and a stdio
\* provider whose tools/list timed out: both registered and initialized,
\* both counted, both without catalog
C22_Witness ==
    \E i, j \in 1..nInst :
        /\ IsHttp(i) /\ IsStdio(j)
        /\ req[i][2].method = "tools/list" /\ req[i][2].out = "http_error"
        /\ req[j][1].method = "tools/list" /\ req[j][1].out = "timeout"
        /\ {i, j} \subseteq Registered
        /\ initialized[i] /\ initialized[j]
        /\ tools[i] = <<>> /\ tools[j] = <<>>
        /\ GetInitializedServersCount = 2

\* the catalog that the k-th registered server contributes: its tools when
\* its initialized flag is true, nothing otherwise
Contribution(k) ==
    IF initialized[servers[k].inst] THEN tools[servers[k].inst] ELSE <<>>

\* the number of tools that the first k registered servers contribute
RECURSIVE LenBefore(_)
LenBefore(k) == IF k = 0 THEN 0 ELSE LenBefore(k - 1) + Len(Contribution(k))

\* C23: getTools() is the concatenation, in registration order, of the
\* catalogs of the registered providers whose initialized flag is true:
\* each of them fills its own stretch of the result, in order, and nothing
\* else is in it; a provider whose process has exited or whose
\* initialization failed is never among them
C23_GetToolsIsReadyCatalogs ==
    /\ Len(GetTools) = LenBefore(Len(servers))
    /\ \A k \in 1..Len(servers) : \A j \in 1..Len(Contribution(k)) :
          GetTools[LenBefore(k - 1) + j] = Contribution(k)[j]
    /\ \A i \in 1..nInst :
          (process[i] = "exited" \/ i \in failed) =>
             ~(i \in Registered /\ initialized[i])

\* two registered providers with a catalog each: the process of the first
\* has exited, and getTools() is the catalog of the second alone
C23_Witness ==
    /\ Len(servers) = 2
    /\ process[servers[1].inst] = "exited"
    /\ tools[servers[1].inst] = <<"search">>
    /\ initialized[servers[2].inst]
    /\ tools[servers[2].inst] = <<"echo">>
    /\ GetTools = <<"echo">>

\* C24 (as claimed): executeTool sends tools/call only to a provider whose
\* initialized flag is true, a name that only providers with the flag false
\* own fails with not-found, and every name it dispatches is in getTools()
C24_DispatchesOnlyToReady ==
    [][calls' = calls + 1 =>
          LET n == lastCall'.name
              t == lastCall'.target
          IN /\ t # 0 => /\ initialized[t]
                         /\ \E k \in 1..Len(GetTools) : GetTools[k] = n
             /\ ReadyOwners(n) = {} => /\ lastCall'.outcome = "not_found"
                                       /\ sent' = sent]_vars

\* C25: shutdown() is idempotent: every shutdown() leaves an empty registry,
\* a ready count of 0 and an empty catalog, and a shutdown() of a client whose
\* registry is already empty (a second one in a row, or one on a client that
\* was never initialized) kills nothing and changes nothing else
C25_ShutdownIdempotent ==
    [][Shutdown =>
          /\ servers' = <<>>
          /\ GetInitializedServersCount' = 0
          /\ GetTools' = <<>>
          /\ servers = <<>> =>
                UNCHANGED <<config, emitted, split, sessionId, servers, nInst, instCfg,
                            initialized, tools, requestId, pendingRequests,
                            process, killed, req, issued, sent, initIdx,
                            initStage, calls, lastCall, tornDown, failed>>]_vars
C25_Witness ==
    /\ lastOp = "shutdown"
    /\ servers = <<>>
    /\ Cardinality(killed) = 2
    /\ tornDown = killed
    /\ \E i \in killed : tools[i] # <<>>
    /\ GetTools = <<>>
    /\ GetInitializedServersCount = 0
    /\ ~Busy

\* C26 (as claimed): when the provider answers the tools/call of the latest
\* executeTool with a JSON-RPC error object, the failure text executeTool
\* surfaces is the provider's error message and nothing else
C26_RemoteErrorTextVerbatim ==
    \A i \in 1..nInst :
       (/\ lastCall.outcome = "dispatched"
        /\ lastCall.target = i
        /\ req[i][requestId[i]].method = "tools/call"
        /\ req[i][requestId[i]].out = "remote_error")
       => ExecuteToolError(lastCall.name, RemoteErrorMessage)
             = <<RemoteErrorMessage>>

\* C27: when two or more registered providers own the name, executeTool
\* sends the tools/call to the one that comes first in the configuration,
\* and puts nothing on the transport of any other
RegisteredOwners(n) == {i \in Registered : HasTool(i, n)}
C27_FirstRegisteredOwnerWins ==
    [][(calls' = calls + 1 /\ Cardinality(RegisteredOwners(lastCall'.name)) >= 2)
          => LET owners == RegisteredOwners(lastCall'.name)
                 t == lastCall'.target
             IN /\ lastCall'.outcome = "dispatched"
                /\ t \in owners
                /\ \A j \in owners : instCfg[t] <= instCfg[j]
                /\ sent'[t] = Append(sent[t], requestId'[t])
                /\ req'[t][requestId'[t]].method = "tools/call"
                /\ \A j \in InstIds \ {t} :
                      sent'[j] = sent[j] /\ req'[j] = req[j]]_vars
C27_Witness ==
    /\ calls = 2
    /\ lastCall.outcome = "dispatched"
    /\ Cardinality(RegisteredOwners(lastCall.name)) = 2
    /\ \E t, j \in RegisteredOwners(lastCall.name) :
          /\ lastCall.target = t
          /\ instCfg[t] < instCfg[j]
          /\ Len(sent[t]) = 4
          /\ \A id \in {3, 4} : req[t][id].method = "tools/call"
          /\ \A id \in ReqIds : req[j][id].method # "tools/call"

\* C28 (as claimed): a response line to a request that reached the stdout
\* handler in two chunks has been reassembled and has settled the request
C28_SplitLineSettlesItsRequest ==
    \A i \in 1..nInst : \A id \in ReqIds :
       split[i][id] = "all" => req[i][id].out # "waiting"

\* C29: a stdout line that is not JSON is dropped and stops nothing: a chunk
\* with a response to request a, a line that is not JSON and a response to
\* request b settles a and b as the two responses say, takes both out of
\* the pending Map, and changes no other request
C29_UnparsableLineIsSkipped ==
    [][\A i \in 1..nInst : \A chunk \in Chunks(i) :
          (/\ Len(chunk) = 4
           /\ pendingRequests'[i] # pendingRequests[i]
           /\ StdoutChunk(i, chunk))
          => LET a == chunk[1].id
                 b == chunk[3].id
             IN /\ chunk[2].kind = "garbage"
                /\ pendingRequests'[i] = pendingRequests[i] \ {a, b}
                /\ req'[i][a] = Resolved(ClearTimeout(req[i][a]), "result")
                /\ req'[i][b] =
                      IF chunk[3].kind = "error"
                      THEN Rejected(ClearTimeout(req[i][b]), "remote_error")
                      ELSE Resolved(ClearTimeout(req[i][b]), "result")
                /\ \A id \in ReqIds \ {a, b} : req'[i][id] = req[i][id]]_vars
C29_Witness ==
    \E i \in 1..nInst :
       /\ IsStdio(i) /\ CfgOf(i).target = "chunky"
       /\ requestId[i] = 3
       /\ pendingRequests[i] = {}
       /\ req[i][3].out = "result" /\ req[i][3].timer = "cleared"
       /\ req[i][2].out = "remote_error" /\ req[i][2].timer = "cleared"
       /\ \A id \in ReqIds : split[i][id] = "none"

\* C30: a stdout message that parses and has no id, or an id that is not in
\* the pending Map (never issued, already answered, timed out), leaves the
\* pending Map, the id counter, the catalog and every request as they were:
\* no step that changes one of them is the handling of such a message
C30_UnmatchedMessageChangesNothing ==
    [][\A i \in InstIds :
          (/\ req'[i] # req[i] \/ pendingRequests'[i] # pendingRequests[i]
              \/ tools'[i] # tools[i] \/ requestId'[i] # requestId[i]
           /\ sent' = sent /\ process' = process /\ initStage' = initStage)
          => \A msg \in StdoutLines(i) :
                (/\ msg.kind # "garbage"
                 /\ msg.id = 0 \/ msg.id \notin pendingRequests[i])
                => ~StdoutData(i, msg)]_vars
C30_Witness ==
    \E i \in 1..nInst :
       /\ IsStdio(i) /\ process[i] = "running" /\ ~Busy /\ ~MidLine(i)
       /\ req[i][1].out = "result" /\ req[i][1].nres = 1
       /\ req[i][2].out = "timeout" /\ req[i][2].nres = 0
       /\ pendingRequests[i] = {3}
       /\ \E msg \in StdoutLines(i) : msg.id = 2 /\ msg.kind = "result"
       /\ \E msg \in StdoutLines(i) : msg.id = 0 /\ msg.kind = "bare"
       /\ \E msg \in StdoutLines(i) : msg.id = NeverIssued

\* C31: request ids and pending Maps are per provider: when two stdio
\* providers both have a request with the same id pending and a response
\* on the stdout of one settles its request, the requests, the pending Map
\* and the id counter of the other are left as they were
C31_ResponseStaysInItsProvider ==
    [][\A i, j \in 1..nInst :
          (/\ i # j
           /\ IsStdio(i)
           /\ \E id \in pendingRequests[i] \cap pendingRequests[j] :
                 /\ id \notin pendingRequests'[i]
                 /\ req'[i][id].timer = "cleared")
          => /\ req'[j] = req[j]
             /\ pendingRequests'[j] = pendingRequests[j]
             /\ requestId'[j] = requestId[j]
             /\ tools'[j] = tools[j]]_vars
C31_Witness ==
    \E i, j \in 1..nInst :
       /\ i # j /\ IsStdio(i) /\ IsStdio(j)
       /\ requestId[i] = 1 /\ requestId[j] = 1
       /\ req[i][1].out = "result" /\ req[i][1].timer = "cleared"
       /\ pendingRequests[i] = {}
       /\ req[j][1].out = "waiting" /\ req[j][1].timer = "armed"
       /\ pendingRequests[j] = {1}
       /\ tools[i] # <<>> /\ tools[j] = <<>>

\* C32 (as claimed): when shutdown() ran while initialize() was in progress
\* and initialize() has returned, the registry is empty, the count of
\* initialized servers is 0 and no process the client spawned is running
\* without having been killed
C32_ShutdownDuringInitializeDiscardsAll ==
    (lastOp = "shutdown_during_initialize" /\ initStage = "idle")
    => /\ servers = <<>>
       /\ GetInitializedServersCount = 0
       /\ \A i \in 1..nInst : process[i] = "running" => i \in killed

\* C33 (as claimed): a Gemini session reads the catalog only after
\* initialize() has returned and the tools/list of every provider that
\* counts as initialized has settled
C33_SessionReadsCompleteCatalog ==
    [][(lastOp # "connect" /\ lastOp' = "connect")
          => initStage = "idle" /\ ~Discovering]_vars

\* C34 (as claimed): initialize() always returns: whenever its loop is under
\* way, it later reaches its end, whatever the providers answer or fail to
\* answer, and by then every configuration entry has been attempted
C34_InitializeReturns ==
    (initStage # "idle") ~> (initStage = "idle" /\ nInst = Len(config))

\* C35 (as claimed): an HTTP provider whose initialize request was answered
\* with a JSON body that is a JSON-RPC error object is not initialized and
\* not registered, so that it is not counted
C35_HandshakeErrorNotReady ==
    \A i \in HttpInstances : \A id \in ReqIds :
       (req[i][id].method = "initialize" /\ req[i][id].out = "error_object")
       => /\ ~initialized[i]
          /\ i \notin Registered

\* C36: an instance made for a configuration of an unsupported type, for a
\* stdio configuration without command or for an HTTP configuration without
\* url has failed with no I/O: no process, no request id assigned, nothing
\* sent, and it is not registered, not initialized and has no catalog
Unusable(cfg) ==
    \/ cfg.type \notin {"stdio", "sse", "streamable-http"}
    \/ cfg.type = "stdio" /\ cfg.target = "absent"
    \/ cfg.type \in {"sse", "streamable-http"} /\ cfg.target = "absent"
C36_UnusableConfigFailsWithoutIO ==
    \A i \in 1..nInst :
       Unusable(CfgOf(i))
       => /\ i \in failed
          /\ process[i] = "none"
          /\ requestId[i] = 0 /\ issued[i] = <<>> /\ sent[i] = <<>>
          /\ \A id \in ReqIds : req[i][id] = NoReq
          /\ i \notin Registered
          /\ ~initialized[i]
          /\ tools[i] = <<>>
C36_Witness ==
    /\ Len(config) = 2
    /\ nInst = 2
    /\ initStage = "idle"
    /\ Unusable(CfgOf(1)) /\ CfgOf(1).type = "sse"
    /\ Unusable(CfgOf(2)) /\ CfgOf(2).type = "stdio"
    /\ failed = {1, 2}
    /\ servers = <<>>
    /\ GetInitializedServersCount = 0
    /\ GetTools = <<>>

\* C37: for every function call handed to handleToolCall whose executeTool
\* has settled, exactly one event has been emitted, toolResult when
\* executeTool returned and toolError when it threw, and no exception has
\* left handleToolCall, whether the session is there or not and whether the
\* response can be sent or not
EventsOf(i, id, env) ==
    {e.kind : e \in {x \in emitted : /\ x.inst = i /\ x.id = id
                                     /\ x.hasSession = env[1]
                                     /\ x.sendOk = env[2]}}
C37_OneEventPerToolCall ==
    \A env \in BOOLEAN \X BOOLEAN :
       /\ \A i \in 1..nInst : \A id \in ReqIds :
             (req[i][id].method = "tools/call" /\ req[i][id].out # "waiting")
             => EventsOf(i, id, env) =
                   {IF req[i][id].out \in Failures THEN "toolError"
                    ELSE "toolResult"}
       /\ \A i \in 1..nInst : \A id \in ReqIds :
             req[i][id].out \in {"none", "waiting"}
             => EventsOf(i, id, env) = {}
       /\ lastCall.outcome = "not_found"
             => EventsOf(0, calls, env) = {"toolError"}
C37_Witness ==
    \E i \in 1..nInst :
       /\ calls = 2
       /\ lastCall.outcome = "not_found"
       /\ \E id \in ReqIds :
             /\ req[i][id].method = "tools/call"
             /\ req[i][id].out = "remote_error"
             /\ {<<e.inst, e.id, e.kind>> : e \in emitted} =
                   {<<i, id, "toolError">>, <<0, 2, "toolError">>}

\* C38: initialize() brings the providers up one at a time in configuration
\* order: the instance for entry k + 1 is made only when entries 1..k have an
\* instance each whose initialization is over (an HTTP handshake or
\* discovery of it is not in flight, a stdio one has sent its tools/list or
\* failed), and the registry lists the instances in configuration order
InFlight(j) ==
    /\ j \notin failed
    /\ IF IsHttp(j)
       THEN \E id \in ReqIds : /\ req[j][id].method \in {"initialize", "tools/list"}
                               /\ req[j][id].out = "waiting"
       ELSE issued[j] = <<>>
C38_OneAtATimeInConfigOrder ==
    [][/\ nInst' # nInst
          => /\ nInst' = nInst + 1
             /\ instCfg'[nInst'] = nInst'
             /\ \A j \in 1..nInst : instCfg[j] = j /\ ~InFlight(j)
       /\ \A k, l \in 1..Len(servers') :
             k < l => instCfg'[servers'[k].inst] < instCfg'[servers'[l].inst]]_vars
C38_Witness ==
    /\ nInst = 2
    /\ initStage = "idle"
    /\ IsHttp(1) /\ IsStdio(2)
    /\ Len(servers) = 2
    /\ servers[1].inst = 1 /\ servers[2].inst = 2
    /\ req[1][2].method = "tools/list" /\ req[1][2].out = "result"
    /\ issued[2] = <<1>>

\* C39: an HTTP provider is in the registry only when its initialize and
\* its tools/list requests have settled, and once it is in the registry its
\* catalog does not change
HandshakeSettled(i) ==
    /\ \E id \in ReqIds : req[i][id].method = "tools/list"
    /\ \A id \in ReqIds :
          req[i][id].method \in {"initialize", "tools/list"}
          => req[i][id].out \notin {"none", "waiting"}
C39_HttpRegisteredAfterDiscovery ==
    [][\A i \in 1..nInst' :
          IsHttp(i)' =>
             /\ i \in Registered' => HandshakeSettled(i)'
             /\ i \in Registered => tools'[i] = tools[i]]_vars
C39_Witness ==
    \E i \in 1..nInst :
       /\ IsHttp(i)
       /\ i \in Registered
       /\ initialized[i]
       /\ tools[i] = <<"search">>
       /\ GetTools = <<"search">>
       /\ GetInitializedServersCount = 1
       /\ req[i][3].method = "tools/call" /\ req[i][3].out = "http_error"
       /\ req[i][4].method = "tools/call" /\ req[i][4].out = "result"

\* C40: on a stdio provider every id written to stdin whose request is not
\* settled is in the pending Map with its timer armed, the Map holds only
\* ids that were written, and only a request whose id was written has ever
\* been resolved or rejected
Written(i) == {sent[i][k] : k \in 1..Len(sent[i])}
C40_WrittenIdsArePending ==
    \A i \in 1..nInst :
       IsStdio(i) =>
          /\ \A id \in Written(i) :
                req[i][id].out = "waiting"
                => id \in pendingRequests[i] /\ req[i][id].timer = "armed"
          /\ pendingRequests[i] \subseteq Written(i)
          /\ \A id \in ReqIds :
                req[i][id].nres + req[i][id].nrej > 0 => id \in Written(i)
C40_Witness ==
    \E i \in 1..nInst :
       /\ IsStdio(i)
       /\ sent[i] = <<1, 2, 3>>
       /\ req[i][1].out = "result"
       /\ req[i][2].out = "timeout"
       /\ req[i][3].out = "waiting" /\ req[i][3].timer = "armed"
       /\ pendingRequests[i] = {3}

====
